---- MODULE Spec2Model ----
(***************************************************************************)
(* Model of the Myte AI API (src/ai_features): the invoice classifier      *)
(* endpoint, the voice-assistant chat endpoint and the transcription       *)
(* endpoint, each as the sequence of event-loop steps its handler runs.    *)
(*                                                                         *)
(* Text is a sequence of text atoms.  Text the code inspects character by  *)
(* character (filenames, ticket categories, blank strings) is a sequence   *)
(* of single characters; fixed messages and names are one atom.            *)
(* A JSON value is a tagged record: null, bool, num, str, arr, obj.        *)
(***************************************************************************)
EXTENDS Integers, Sequences, FiniteSets, TLC

VARIABLES
    apiKey,       \* OPENAI_API_KEY is set to a non-empty value
    booted,       \* the application's startup event has run
    processor,    \* router.py global `processor`: "None" or "ready"
    pc,           \* per request: the handler's position
    inp,          \* per request: what the client sent
    resp,         \* per request: the HTTP response, status 0 while pending
    rec,          \* per request: what process_file_bytes returned / raised
    sent,         \* per request: the request handed to the remote model
    reply,        \* per request: what the remote model answered
    remoteCalls,  \* per request: remote model calls made so far
    loopHolder,   \* request whose synchronous call blocks the event loop, 0 if none
    fs,           \* working directory: path -> inode number, 0 if no such file
    inodes,       \* inode number -> bytes stored
    handle,       \* per request: inode of the transient file it opened, 0 if none
    served,       \* requests answered so far
    io,           \* per request: how reading and writing the upload went
    payload,      \* a JSON value given to _validate_and_clean_data
    cleanings     \* the results of cleaning it, and of cleaning the result again

vars == <<apiKey, booted, processor, pc, inp, resp, rec, sent, reply, remoteCalls,
          loopHolder, fs, inodes, handle, served, io, payload, cleanings>>

-----------------------------------------------------------------------------
(* Bounds *)

MaxNameLen == 4
MaxRequests == 2
MaxTickets == 2

\* request slots of the one server process
Reqs == {1, 2}

-----------------------------------------------------------------------------
(* Text *)

LowerLetters == <<"a","b","c","d","e","f","g","h","i","j","k","l","m",
                  "n","o","p","q","r","s","t","u","v","w","x","y","z">>
UpperLetters == <<"A","B","C","D","E","F","G","H","I","J","K","L","M",
                  "N","O","P","Q","R","S","T","U","V","W","X","Y","Z">>

\* str.lower() on one character
LowerChar(c) ==
    IF \E i \in 1..26 : UpperLetters[i] = c
    THEN LowerLetters[CHOOSE i \in 1..26 : UpperLetters[i] = c]
    ELSE c

\* str.upper() on one character
UpperChar(c) ==
    IF \E i \in 1..26 : LowerLetters[i] = c
    THEN UpperLetters[CHOOSE i \in 1..26 : LowerLetters[i] = c]
    ELSE c

Lower(s) == [i \in 1..Len(s) |-> LowerChar(s[i])]
Upper(s) == [i \in 1..Len(s) |-> UpperChar(s[i])]

\* s.endswith(suf)
EndsWith(s, suf) ==
    /\ Len(suf) <= Len(s)
    /\ \A i \in 1..Len(suf) : s[Len(s) - Len(suf) + i] = suf[i]

\* s.split('.')[-1]: the text after the last '.', the whole text if there is none
LastSegment(s) ==
    LET dots == {i \in 1..Len(s) : s[i] = "."}
        last == IF dots = {} THEN 0 ELSE CHOOSE i \in dots : \A j \in dots : j <= i
    IN  SubSeq(s, last + 1, Len(s))

Whitespace == {" ", "\t", "\n", "\r"}

\* s.strip()
Strip(s) ==
    LET solid == {i \in 1..Len(s) : s[i] \notin Whitespace}
    IN  IF solid = {} THEN <<>>
        ELSE SubSeq(s, CHOOSE i \in solid : \A j \in solid : i <= j,
                       CHOOSE i \in solid : \A j \in solid : j <= i)

\* not s.strip()
IsBlank(s) == Strip(s) = <<>>

Digits == <<"0","1","2","3","4","5","6","7","8","9">>

IsDigit(c) == \E i \in 1..10 : Digits[i] = c

DigitValue(c) == (CHOOSE i \in 1..10 : Digits[i] = c) - 1

\* float(s) succeeds; the numeric texts of the model are unsigned integers
IsFloatText(s) ==
    LET core == Strip(s)
    IN  Len(core) > 0 /\ \A i \in 1..Len(core) : IsDigit(core[i])

RECURSIVE DigitsValue(_)
DigitsValue(s) ==
    IF Len(s) = 0 THEN 0
    ELSE 10 * DigitsValue(SubSeq(s, 1, Len(s) - 1)) + DigitValue(s[Len(s)])

\* float(s)
FloatOf(s) == DigitsValue(Strip(s))

\* str(n) for a number n >= 0
RECURSIVE DecimalText(_)
DecimalText(n) ==
    IF n < 10 THEN <<Digits[n + 1]>>
    ELSE DecimalText(n \div 10) \o <<Digits[(n % 10) + 1]>>

-----------------------------------------------------------------------------
(* JSON values *)

JNull == [t |-> "null"]
JBool(b) == [t |-> "bool", b |-> b]
JNum(n) == [t |-> "num", n |-> n]
JStr(s) == [t |-> "str", s |-> s]
JArr(a) == [t |-> "arr", a |-> a]
JObj(o) == [t |-> "obj", o |-> o]

\* the empty dict
EmptyDict == [k \in {} |-> JNull]

\* dict.get(k): None when the key is missing
Get(d, k) == IF k \in DOMAIN d THEN d[k] ELSE JNull

\* dict with d[k] = v assigned
Put(d, k, v) == [x \in DOMAIN d \cup {k} |-> IF x = k THEN v ELSE d[x]]

\* Python truthiness of a JSON value
Truthy(v) ==
    CASE v.t = "null" -> FALSE
      [] v.t = "bool" -> v.b
      [] v.t = "num"  -> v.n # 0
      [] v.t = "str"  -> Len(v.s) > 0
      [] v.t = "arr"  -> Len(v.a) > 0
      [] v.t = "obj"  -> DOMAIN v.o # {}

\* str(v)
PyStr(v) ==
    CASE v.t = "str"  -> v.s
      [] v.t = "num"  -> DecimalText(v.n)
      [] v.t = "bool" -> IF v.b THEN <<"True">> ELSE <<"False">>
      [] v.t = "null" -> <<"None">>
      [] OTHER        -> <<"repr">>

-----------------------------------------------------------------------------
(* invoice_classifier: constants and settings *)

\* constants.OTHER_CLASS
OTHER_CLASS == <<"Other">>

\* constants.EXPENSE_CLASSES: the enumerated values of the function schema
EXPENSE_CLASSES ==
    { <<"Maintenance & Repairs">>,
      <<"Utilities & Energy">>,
      <<"Property Management & Admin Fees">>,
      <<"Supplies & Consumables">>,
      <<"Landscaping & Outdoor Maintenance">>,
      <<"Contractor Services (External Work Orders)">>,
      <<"Insurance & Compliance">>,
      <<"Staff & Labor">>,
      <<"Taxes & Permits">>,
      <<"Capital Expenditures (CapEx)">>,
      <<"Professional Services">>,
      OTHER_CLASS }

\* Settings.ALLOWED_EXTENSIONS
ALLOWED_EXTENSIONS ==
    { <<"p","d","f">>, <<"p","n","g">>, <<"j","p","g">>, <<"j","p","e","g">> }

\* Settings.MAX_FILE_SIZE
MAX_FILE_SIZE == 10 * 1024 * 1024

\* Settings.MODEL_NAME
MODEL_NAME == <<"gpt-4o-mini">>

\* the attributes an InvoiceProcessor instance has (set in __init__, or methods)
ProcessorAttrs ==
    { "settings", "logger", "api_logger", "client", "tools",
      "_define_tools", "_extract_text_content", "pdf_to_images", "concat_images",
      "convert_to_image", "encode_image", "_validate_and_clean_data",
      "_generate_null_response", "process_file_bytes" }

-----------------------------------------------------------------------------
(* invoice_classifier/processor.py *)

\* an InvoiceProcessor.__init__ that does not look at the key
InvoiceProcessor_init_unchecked(key) == "ready"

\* InvoiceProcessor.__init__: ValueError when the key is unset or empty
InvoiceProcessor_init(key) == IF ~key THEN "ValueError" ELSE "ready"

\* a gate that is content with either core field
validate_invoice_content_either(data) ==
    Get(data, "expense_class") # JNull \/ Get(data, "total_amount") # JNull

\* validate_invoice_content(data), data a dict
validate_invoice_content(data) ==
    Get(data, "expense_class") # JNull /\ Get(data, "total_amount") # JNull

\* a cleaning that does not descend into the items of a list
validate_and_clean_data_shallow(data) ==
    CASE data.t = "arr" -> IF Len(data.a) = 0 THEN JNull ELSE data
      [] data.t = "str" -> IF IsBlank(data.s) THEN JNull ELSE data
      [] OTHER -> data

\* InvoiceProcessor._validate_and_clean_data
RECURSIVE validate_and_clean_data(_)
validate_and_clean_data(data) ==
    CASE data.t = "obj" ->
            JObj([k \in DOMAIN data.o |-> validate_and_clean_data(data.o[k])])
      [] data.t = "arr" ->
            IF Len(data.a) = 0 THEN JNull
            ELSE JArr([i \in 1..Len(data.a) |-> validate_and_clean_data(data.a[i])])
      [] data.t = "str" -> IF IsBlank(data.s) THEN JNull ELSE data
      [] OTHER -> data

ExtractedFields ==
    { "vendor_name", "vendor_address", "invoice_number", "invoice_date", "due_date",
      "total_amount", "currency", "tax_amount", "description_summary" }

ErrNotInvoice == <<"Document does not appear to be a valid invoice or is empty.">>
ErrUnexpected == <<"Unexpected processing error: ">>

ZeroUsage ==
    JObj([k \in {"prompt_tokens", "completion_tokens", "total_tokens"} |-> JNum(0)])

\* calculate_token_usage(response), response.usage present
calculate_token_usage(usage) ==
    JObj([k \in {"prompt_tokens", "completion_tokens", "total_tokens"} |->
            CASE k = "prompt_tokens"     -> JNum(usage.prompt)
              [] k = "completion_tokens" -> JNum(usage.completion)
              [] OTHER                   -> JNum(usage.prompt + usage.completion)])

\* InvoiceProcessor._generate_null_response (timing and size metadata left out)
generate_null_response(filename, token_usage) ==
    [k \in ExtractedFields \cup {"expense_class", "metadata"} |->
        CASE k = "expense_class" -> JStr(OTHER_CLASS)
          [] k = "metadata" ->
                JObj([m \in {"filename", "token_usage", "error"} |->
                        CASE m = "filename"    -> JStr(filename)
                          [] m = "token_usage" -> token_usage
                          [] OTHER             -> JStr(ErrNotInvoice)])
          [] OTHER -> JNull]

\* the null record of the except branch: zero usage and the error text
error_null_response(filename) ==
    LET null_resp == generate_null_response(filename, ZeroUsage)
    IN  Put(null_resp, "metadata",
            JObj(Put(null_resp["metadata"].o, "error", JStr(ErrUnexpected))))

\* the try block of process_file_bytes: out is what
\* client.chat.completions.create did; exc is whether an Exception was raised
try_body(filename, model_name, out) ==
    IF out.kind = "raise" THEN [exc |-> TRUE, data |-> EmptyDict]
    ELSE
    LET token_usage == calculate_token_usage(out.usage) IN
    IF out.kind = "no_tool"
    THEN [exc |-> FALSE, data |-> generate_null_response(filename, token_usage)]
    ELSE IF ~out.parseable THEN [exc |-> TRUE, data |-> EmptyDict]  \* json.loads
    ELSE
    LET invoice_data == validate_and_clean_data(out.args) IN
    IF invoice_data.t # "obj"
    THEN [exc |-> TRUE, data |-> EmptyDict]      \* data.get on what is no dict
    ELSE IF ~validate_invoice_content(invoice_data.o) THEN
        LET null_resp == generate_null_response(filename, token_usage)
        IN  [exc |-> FALSE,
             data |-> Put(null_resp, "metadata",
                          JObj(Put(null_resp["metadata"].o, "raw_ai_output",
                                   invoice_data)))]
    ELSE
        [exc |-> FALSE,
         data |-> Put(invoice_data.o, "metadata",
                      JObj([m \in {"filename", "token_usage", "model_used"} |->
                              CASE m = "filename"    -> JStr(filename)
                                [] m = "token_usage" -> token_usage
                                [] OTHER             -> JStr(model_name)]))]

\* a process_file_bytes without its `except Exception` clause
process_file_bytes_uncaught(filename, model_name, out) ==
    LET t == try_body(filename, model_name, out)
    IN  IF t.exc
        THEN [kind |-> "raised", status |-> 500, data |-> EmptyDict]
        ELSE [kind |-> "returned", status |-> 0, data |-> t.data]

\* InvoiceProcessor.process_file_bytes from the remote call on: the try block
\* and its `except Exception` clause
process_file_bytes(filename, model_name, out) ==
    LET t == try_body(filename, model_name, out)
    IN  [kind |-> "returned", status |-> 0,
         data |-> IF t.exc THEN error_null_response(filename) ELSE t.data]

\* InvoiceProcessor.convert_to_image: which branch the extension takes
ImageKind(filename) ==
    LET extension == LastSegment(Lower(filename))
    IN  IF extension \in {<<"j","p","g">>, <<"j","p","e","g">>, <<"p","n","g">>,
                          <<"g","i","f">>}
        THEN "image"
        ELSE IF extension = <<"p","d","f">> THEN "pdf" ELSE "placeholder"

\* the text part of the user turn: a conditional expression over the whole text
UserText(raw_text_nonempty) ==
    IF raw_text_nonempty
    THEN [instruction |-> TRUE, raw_section |-> TRUE]
    ELSE [instruction |-> FALSE, raw_section |-> FALSE]

-----------------------------------------------------------------------------
(* invoice_classifier/models.py and router.py *)

\* InvoiceClassificationResponse.expense_class: str
ValidStr(v) == v.t = "str"

\* Optional[str]
ValidOptStr(v) == v.t \in {"null", "str"}

\* Optional[float]: a number, or a numeric text, which is converted
ValidOptFloat(v) == v.t \in {"null", "num"} \/ (v.t = "str" /\ IsFloatText(v.s))

CoerceFloat(v) == IF v.t = "str" THEN JNum(FloatOf(v.s)) ELSE v

\* proc.OTHER_CLASS: an attribute lookup on the InvoiceProcessor instance
ProcHasOtherClass == "OTHER_CLASS" \in ProcessorAttrs

NoBody == JNull

\* parse_invoice_endpoint after process_file_bytes returned extracted_data
invoice_response(extracted_data) ==
    LET ec == Get(extracted_data, "expense_class")
        inv_num == Get(extracted_data, "invoice_number")
        total == Get(extracted_data, "total_amount")
        currency == Get(extracted_data, "currency")
        final_ok == Truthy(ec) \/ ProcHasOtherClass
        final_class == IF Truthy(ec) THEN ec ELSE JStr(OTHER_CLASS)
        invoice_number_str == IF inv_num # JNull THEN JStr(PyStr(inv_num)) ELSE JNull
        try_ok == /\ final_ok
                  /\ ValidStr(final_class)
                  /\ ValidOptFloat(total)
                  /\ ValidOptStr(currency)
    IN  IF try_ok
        THEN [status |-> 200,
              body |-> JObj([k \in {"expense_class", "invoice_number", "total_amount",
                                    "currency", "raw_response"} |->
                        CASE k = "expense_class"  -> final_class
                          [] k = "invoice_number" -> invoice_number_str
                          [] k = "total_amount"   -> CoerceFloat(total)
                          [] k = "currency"       -> currency
                          [] OTHER                -> JObj(extracted_data)])]
        ELSE IF ProcHasOtherClass   \* except Exception: answer with proc.OTHER_CLASS
        THEN [status |-> 200,
              body |-> JObj([k \in {"expense_class", "invoice_number", "total_amount",
                                    "currency", "raw_response"} |->
                        CASE k = "expense_class" -> JStr(OTHER_CLASS)
                          [] k = "raw_response"  ->
                                JObj([e \in {"error"} |->
                                        JStr(<<"An unexpected server error occurred: ">>)])
                          [] OTHER               -> JNull])]
        ELSE [status |-> 500, body |-> NoBody]    \* AttributeError leaves the handler

\* the file-type test of parse_invoice_endpoint
FileTypeAllowed(upload) ==
    /\ upload.hasName
    /\ \E ext \in ALLOWED_EXTENSIONS : EndsWith(Lower(upload.filename), ext)

-----------------------------------------------------------------------------
(* State shared by the three endpoints *)

AudioNames == {"a.wav", "b.wav"}

AudioBytes == {<<82, 73, 70, 70>>, <<0, 1>>}

\* temp_filename = f"temp_{file.filename}"
TempName(filename) == <<"temp_", filename>>

TempPaths == {TempName(f) : f \in AudioNames}

NoInput == [endpoint |-> "none"]
NoResponse == [status |-> 0, body |-> NoBody]
NoRecord == [kind |-> "none", status |-> 0, data |-> EmptyDict]
NoSent == [endpoint |-> "none"]
NoReply == [kind |-> "none"]

\* the service before startup: no request in any slot, no temporary file
ServiceInit ==
    /\ apiKey \in BOOLEAN
    /\ booted = FALSE
    /\ processor = "None"
    /\ pc = [r \in Reqs |-> "idle"]
    /\ inp = [r \in Reqs |-> NoInput]
    /\ resp = [r \in Reqs |-> NoResponse]
    /\ rec = [r \in Reqs |-> NoRecord]
    /\ sent = [r \in Reqs |-> NoSent]
    /\ reply = [r \in Reqs |-> NoReply]
    /\ remoteCalls = [r \in Reqs |-> 0]
    /\ loopHolder = 0
    /\ fs = [p \in TempPaths |-> 0]
    /\ inodes = <<>>
    /\ handle = [r \in Reqs |-> 0]
    /\ served = 0
    /\ io = [r \in Reqs |-> "none"]

Init ==
    /\ ServiceInit
    /\ payload = JNull
    /\ cleanings = <<>>

\* the handler of request r ends with `response`
Answer(r, response) ==
    /\ resp' = [resp EXCEPT ![r] = response]
    /\ pc' = [pc EXCEPT ![r] = "done"]
    /\ served' = served + 1

\* startup_event: build the InvoiceProcessor; its __init__ raises ValueError
\* when the key is unset, which is logged and passed over
Startup ==
    /\ ~booted
    /\ booted' = TRUE
    /\ processor' = IF processor = "None" /\ InvoiceProcessor_init(apiKey) = "ready"
                    THEN "ready" ELSE processor
    /\ UNCHANGED <<io, payload, cleanings, apiKey, pc, inp, resp, rec, sent, reply, remoteCalls, loopHolder,
                   fs, inodes, handle, served>>

\* the connection of an answered request closes; its slot takes the next request
Finish(r) ==
    /\ pc[r] = "done"
    /\ loopHolder = 0
    /\ pc' = [pc EXCEPT ![r] = "idle"]
    /\ inp' = [inp EXCEPT ![r] = NoInput]
    /\ resp' = [resp EXCEPT ![r] = NoResponse]
    /\ rec' = [rec EXCEPT ![r] = NoRecord]
    /\ sent' = [sent EXCEPT ![r] = NoSent]
    /\ reply' = [reply EXCEPT ![r] = NoReply]
    /\ remoteCalls' = [remoteCalls EXCEPT ![r] = 0]
    /\ handle' = [handle EXCEPT ![r] = 0]
    /\ io' = [io EXCEPT ![r] = "none"]
    /\ UNCHANGED <<payload, cleanings, apiKey, booted, processor, loopHolder, fs, inodes, served>>

-----------------------------------------------------------------------------
(* POST /invoice-classifier/parse-and-classify-invoice *)

NameAlphabet == {".", "p", "d", "f", "x"}

ExtraNames ==
    { <<"a", ".", "P", "D", "F">>, <<"a", ".", "p", "n", "g">>,
      <<"a", ".", "J", "p", "g">>, <<"a", ".", "j", "p", "e", "g">>,
      <<"a", ".", "g", "i", "f">>, <<"a", ".", "t", "x", "t">>,
      <<"a", ".", "p", "d", "f", ".", "t", "x", "t">> }

Filenames == UNION {[1..n -> NameAlphabet] : n \in 0..MaxNameLen} \cup ExtraNames

FileSizes == {0, 1, MAX_FILE_SIZE, MAX_FILE_SIZE + 1}

Uploads ==
    {[endpoint |-> "invoice", hasName |-> TRUE, filename |-> f, size |-> n,
      model |-> MODEL_NAME] : f \in Filenames, n \in FileSizes}
    \cup {[endpoint |-> "invoice", hasName |-> FALSE, filename |-> <<>>, size |-> 1,
           model |-> MODEL_NAME]}

\* get_processor, then parse_invoice_endpoint up to `await file.read()`
InvReceive(r, uploads) ==
    /\ booted /\ pc[r] = "idle" /\ loopHolder = 0 /\ served < MaxRequests
    /\ \E u \in uploads :
        /\ inp' = [inp EXCEPT ![r] = u]
        /\ IF processor = "None"
           THEN Answer(r, [status |-> 503, body |-> NoBody])
           ELSE IF ~FileTypeAllowed(u)
           THEN Answer(r, [status |-> 400, body |-> NoBody])
           ELSE /\ pc' = [pc EXCEPT ![r] = "inv_read"]
                /\ UNCHANGED <<resp, served>>
    /\ UNCHANGED <<io, payload, cleanings, apiKey, booted, processor, rec, sent, reply, remoteCalls,
                   loopHolder, fs, inodes, handle>>

\* process_file_bytes raised HTTPException(status): the router re-raises it
InvRaise(r, status) ==
    /\ rec' = [rec EXCEPT ![r] = [kind |-> "raised", status |-> status,
                                  data |-> EmptyDict]]
    /\ Answer(r, [status |-> status, body |-> NoBody])
    /\ UNCHANGED <<sent, remoteCalls>>

\* the size checks, then process_file_bytes up to `await asyncio.to_thread(...)`:
\* convert_to_image, encode_image, _extract_text_content, the messages
InvValidate(r) ==
    /\ pc[r] = "inv_read" /\ loopHolder = 0
    /\ LET u == inp[r] IN
       IF u.size = 0
       THEN Answer(r, [status |-> 400, body |-> NoBody])
            /\ UNCHANGED <<rec, sent, remoteCalls>>
       ELSE IF u.size > MAX_FILE_SIZE
       THEN Answer(r, [status |-> 413, body |-> NoBody])
            /\ UNCHANGED <<rec, sent, remoteCalls>>
       ELSE \E decodes \in BOOLEAN, encodes \in BOOLEAN, has_text \in BOOLEAN :
            LET kind == ImageKind(u.filename)
                raw_text == kind = "pdf" /\ has_text
            IN  IF kind # "placeholder" /\ ~decodes
                THEN InvRaise(r, 400)
                ELSE IF kind # "placeholder" /\ ~encodes
                THEN InvRaise(r, 500)
                ELSE /\ sent' = [sent EXCEPT ![r] =
                                    [endpoint |-> "invoice", kind |-> kind,
                                     filename |-> u.filename, size |-> u.size,
                                     raw_text |-> raw_text,
                                     text |-> UserText(raw_text)]]
                     /\ remoteCalls' = [remoteCalls EXCEPT ![r] = @ + 1]
                     /\ pc' = [pc EXCEPT ![r] = "inv_remote"]
                     /\ UNCHANGED <<resp, rec, served>>
    /\ UNCHANGED <<io, payload, cleanings, apiKey, booted, processor, inp, reply, loopHolder, fs, inodes,
                   handle>>

\* what the remote model may do with an invoice request
TokenUsages == {[prompt |-> 12, completion |-> 5]}

Absent == [t |-> "absent"]

ExpenseClassArgs ==
    { Absent, JNull, JStr(<<" ">>), JStr(<<"Utilities & Energy">>),
      JStr(<<"F", "o", "o">>), JBool(FALSE), JArr(<<>>), JArr(<<JStr(<<"x">>)>>) }

TotalAmountArgs ==
    { Absent, JNull, JNum(42), JNum(0), JStr(<<"4", "2">>), JStr(<<"a", "b", "c">>),
      JStr(<<" ", "\t">>) }

InvoiceNumberArgs == { Absent, JNum(1007) }

CurrencyArgs == { Absent, JStr(<<"USD">>), JArr(<<JStr(<<"USD">>)>>) }

ArgObject(ec, ta, inv, cur) ==
    LET all == [k \in {"expense_class", "total_amount", "invoice_number", "currency"} |->
                  CASE k = "expense_class"  -> ec
                    [] k = "total_amount"   -> ta
                    [] k = "invoice_number" -> inv
                    [] OTHER                -> cur]
    IN  JObj([k \in {x \in DOMAIN all : all[x] # Absent} |-> all[k]])

ArgObjects ==
    { ArgObject(ec, ta, inv, cur) :
        ec \in ExpenseClassArgs, ta \in TotalAmountArgs,
        inv \in InvoiceNumberArgs, cur \in CurrencyArgs }

NonObjectArgs == { JNull, JArr(<<>>), JNum(3) }

InvoiceOutcomes ==
    {[kind |-> "raise"]}
    \cup {[kind |-> "no_tool", usage |-> u] : u \in TokenUsages}
    \cup {[kind |-> "tool", usage |-> u, parseable |-> FALSE, args |-> JNull] :
            u \in TokenUsages}
    \cup {[kind |-> "tool", usage |-> u, parseable |-> TRUE, args |-> a] :
            u \in TokenUsages, a \in ArgObjects \cup NonObjectArgs}

\* the remote call ends: the rest of process_file_bytes, then the response
InvRemoteDone(r, outcomes) ==
    /\ pc[r] = "inv_remote" /\ loopHolder = 0
    /\ \E out \in outcomes :
        LET result == process_file_bytes(inp[r].filename, inp[r].model, out)
        IN  /\ reply' = [reply EXCEPT ![r] = out]
            /\ rec' = [rec EXCEPT ![r] = result]
            /\ Answer(r, IF result.kind = "raised"
                         THEN [status |-> result.status, body |-> NoBody]
                         ELSE invoice_response(result.data))
    /\ UNCHANGED <<io, payload, cleanings, apiKey, booted, processor, inp, sent, remoteCalls, loopHolder,
                   fs, inodes, handle>>

InvoiceNext ==
    \/ Startup
    \/ \E r \in {1} :
        \/ InvReceive(r, Uploads)
        \/ InvValidate(r)
        \/ InvRemoteDone(r, InvoiceOutcomes)
        \/ Finish(r)

SpecInvoice == Init /\ [][InvoiceNext]_vars

-----------------------------------------------------------------------------
(* voice_assistant: constants.ALLOWED_CATEGORIES, as the category rules of the
   system prompt list them *)

ALLOWED_CATEGORIES ==
    { <<"P","L","U","M","B","I","N","G">>,
      <<"E","L","E","C","T","R","I","C","A","L">>,
      <<"H","V","A","C">>,
      <<"A","P","P","L","I","A","N","C","E","S">>,
      <<"S","T","R","U","C","T","U","R","A","L">>,
      <<"P","A","I","N","T","I","N","G">>,
      <<"C","L","E","A","N","I","N","G">>,
      <<"P","E","S","T","_","C","O","N","T","R","O","L">>,
      <<"S","E","C","U","R","I","T","Y">>,
      <<"G","E","N","E","R","A","L">>,
      <<"O","T","H","E","R">> }

-----------------------------------------------------------------------------
(* POST /voice-assistant/chat *)

\* the ticket loop of analyze_ticket_state on one ticket: raised is whether
\* ticket.get("category", "").upper() raised
sanitize_ticket(ticket) ==
    IF ticket.t # "obj" THEN [raised |-> TRUE, ticket |-> ticket]
    ELSE
    LET given == IF "category" \in DOMAIN ticket.o THEN ticket.o["category"]
                 ELSE JStr(<<>>)
    IN  IF given.t # "str" THEN [raised |-> TRUE, ticket |-> ticket]
        ELSE LET category == Upper(given.s)
             IN  [raised |-> FALSE,
                  ticket |-> JObj(Put(ticket.o, "category",
                                      IF category \notin ALLOWED_CATEGORIES
                                      THEN JStr(<<"O","T","H","E","R">>)
                                      ELSE JStr(category)))]

ServerError == [status |-> 500, body |-> NoBody]

\* an except clause that answers with an empty result instead
chat_remote_swallowed ==
    [status |-> 200,
     body |-> JObj([k \in {"status", "response_text", "tickets"} |->
                CASE k = "tickets" -> JArr(<<>>) [] OTHER -> JStr(<<>>)])]

\* the remote call of analyze_ticket_state raised: HTTPException(500)
chat_remote_failed == ServerError

\* analyze_ticket_state after client.chat.completions.create: out is what the
\* call did.  An exception outside the try block leaves the handler: 500.
\* (usage_cost is left out: the PRICING table is not part of the sources.)
chat_response(out) ==
    IF out.kind = "raise" THEN chat_remote_failed
    ELSE IF ~out.parseable THEN ServerError                 \* json.loads raises
    ELSE IF out.content.t # "obj" THEN ServerError          \* content.get
    ELSE
    LET content == out.content.o
        tickets == IF "tickets" \in DOMAIN content THEN content["tickets"]
                   ELSE JArr(<<>>)
        status == IF "status" \in DOMAIN content THEN content["status"]
                  ELSE JStr(<<"completed">>)
        response_text == IF "response_text" \in DOMAIN content
                         THEN content["response_text"] ELSE JStr(<<>>)
    IN  IF tickets.t # "arr" THEN ServerError   \* not iterable, or no List[Dict]
        ELSE
        LET cleaned == [i \in 1..Len(tickets.a) |-> sanitize_ticket(tickets.a[i])]
        IN  IF \E i \in 1..Len(tickets.a) : cleaned[i].raised THEN ServerError
            ELSE IF ~ValidStr(status) \/ ~ValidStr(response_text)
            THEN ServerError                    \* ChatResponse validation
            ELSE [status |-> 200,
                  body |-> JObj([k \in {"status", "response_text", "tickets"} |->
                            CASE k = "status"        -> status
                              [] k = "response_text" -> response_text
                              [] OTHER ->
                                    JArr([i \in 1..Len(tickets.a) |->
                                            cleaned[i].ticket])])]

Contexts ==
    { [property_name |-> <<"Sunset Towers">>, unit_number |-> <<"5B">>],
      [property_name |-> <<"Elm Court">>, unit_number |-> <<"12">>] }

ChatRequests ==
    {[endpoint |-> "chat", user_context |-> c, image_count |-> n,
      messages |-> <<[role |-> "user", content |-> <<"the sink in 3A leaks">>]>>] :
        c \in Contexts, n \in {1}}

CategoryTexts ==
    { <<"h","v","a","c">>,
      <<"h","V","a","C">>,
      <<"H","V","A","C">>,
      <<>>,
      <<"O","t","h","e","r">>,
      <<"f","o","o">>,
      <<"p","e","s","t","_","c","o","n","t","r","o","l">> }

CategoryArgs == {Absent, JNull, JNum(7)} \cup {JStr(c) : c \in CategoryTexts}

TicketObject(cat, ctx) ==
    LET all == [k \in {"property_name", "unit_number", "title", "category"} |->
                  CASE k = "property_name" -> JStr(ctx.property_name)
                    [] k = "unit_number"   -> JStr(ctx.unit_number)
                    [] k = "title"         -> JStr(<<"Sink leaks">>)
                    [] OTHER               -> cat]
    IN  JObj([k \in {x \in DOMAIN all : all[x] # Absent} |-> all[k]])

\* every category with one context's property and unit, two with the other's
TicketObjects ==
    {TicketObject(cat, [property_name |-> <<"Sunset Towers">>, unit_number |-> <<"5B">>]) :
        cat \in CategoryArgs}
    \cup {TicketObject(cat, [property_name |-> <<"Elm Court">>, unit_number |-> <<"12">>]) :
        cat \in {JStr(<<"p","l","u","m","b","i","n","g">>), JNull}}

TicketLists == UNION {[1..n -> TicketObjects] : n \in 0..MaxTickets}

Envelopes ==
    { [status |-> Absent, response_text |-> Absent],
      [status |-> JStr(<<"clarifying">>), response_text |-> JStr(<<"Which sink?">>)],
      [status |-> JNull, response_text |-> JStr(<<"Ticket created.">>)] }

ChatContent(env, tickets) ==
    LET all == [k \in {"status", "response_text", "tickets"} |->
                  CASE k = "status"        -> env.status
                    [] k = "response_text" -> env.response_text
                    [] OTHER               -> tickets]
    IN  JObj([k \in {x \in DOMAIN all : all[x] # Absent} |-> all[k]])

ChatOutcomes ==
    {[kind |-> "raise"]}
    \cup {[kind |-> "content", parseable |-> FALSE, content |-> JNull]}
    \cup {[kind |-> "content", parseable |-> TRUE, content |-> c] :
            c \in {JArr(<<>>), JNum(1)}}
    \cup {[kind |-> "content", parseable |-> TRUE, content |-> ChatContent(e, t)] :
            e \in Envelopes,
            t \in {Absent, JNull, JStr(<<"none">>)} \cup {JArr(l) : l \in TicketLists}}

\* analyze_ticket_state up to the remote call, which is made on the event loop
ChatStart(r, requests) ==
    /\ booted /\ pc[r] = "idle" /\ loopHolder = 0 /\ served < MaxRequests
    /\ \E q \in requests :
        /\ inp' = [inp EXCEPT ![r] = q]
        /\ IF ~apiKey
           THEN /\ Answer(r, ServerError)
                /\ UNCHANGED <<sent, remoteCalls, loopHolder>>
           ELSE /\ sent' = [sent EXCEPT ![r] =
                              [endpoint |-> "chat", context |-> q.user_context,
                               image_count |-> q.image_count,
                               messages |-> q.messages]]
                /\ remoteCalls' = [remoteCalls EXCEPT ![r] = @ + 1]
                /\ loopHolder' = r
                /\ pc' = [pc EXCEPT ![r] = "chat_remote"]
                /\ UNCHANGED <<resp, served>>
    /\ UNCHANGED <<io, payload, cleanings, apiKey, booted, processor, rec, reply, fs, inodes, handle>>

\* the remote call ends; the rest of analyze_ticket_state
ChatRemoteDone(r, outcomes) ==
    /\ pc[r] = "chat_remote" /\ loopHolder = r
    /\ \E out \in outcomes :
        /\ reply' = [reply EXCEPT ![r] = out]
        /\ Answer(r, chat_response(out))
    /\ loopHolder' = 0
    /\ UNCHANGED <<io, payload, cleanings, apiKey, booted, processor, inp, rec, sent, remoteCalls, fs, inodes,
                   handle>>

-----------------------------------------------------------------------------
(* POST /voice-assistant/transcribe *)

TranscribeUploads ==
    {[endpoint |-> "transcribe", filename |-> f, bytes |-> b] :
        f \in AudioNames, b \in AudioBytes}

\* os.path.exists(path)
Exists(path) == fs[path] # 0

\* transcribe_audio up to `await file.read()`: the key check, then
\* open(temp_filename, "wb"), which creates the file or truncates it
TrStart(r, uploads) ==
    /\ booted /\ pc[r] = "idle" /\ loopHolder = 0 /\ served < MaxRequests
    /\ \E u \in uploads, opens \in BOOLEAN :
        LET path == TempName(u.filename) IN
        /\ inp' = [inp EXCEPT ![r] = u]
        /\ IF ~apiKey \/ ~opens        \* HTTPException(500), or open() raised
           THEN /\ Answer(r, ServerError)
                /\ UNCHANGED <<fs, inodes, handle>>
           ELSE /\ IF Exists(path)
                   THEN /\ inodes' = [inodes EXCEPT ![fs[path]] = <<>>]
                        /\ handle' = [handle EXCEPT ![r] = fs[path]]
                        /\ fs' = fs
                   ELSE /\ inodes' = Append(inodes, <<>>)
                        /\ handle' = [handle EXCEPT ![r] = Len(inodes) + 1]
                        /\ fs' = [fs EXCEPT ![path] = Len(inodes) + 1]
                /\ pc' = [pc EXCEPT ![r] = "tr_read"]
                /\ UNCHANGED <<resp, served>>
    /\ UNCHANGED <<io, payload, cleanings, apiKey, booted, processor, rec, sent, reply, remoteCalls,
                   loopHolder>>

\* the `finally` clause: remove the file if it is there
RemoveTemp(path) == fs' = [fs EXCEPT ![path] = 0]

\* file.read() ends and the bytes are written, or one of the two raised: the
\* `with` block is not inside the try statement.  Then the try block up to the
\* remote call, which is made on the event loop.
TrWrite(r) ==
    /\ pc[r] = "tr_read" /\ loopHolder = 0
    /\ LET path == TempName(inp[r].filename) IN
       \E how \in {"ok", "read_raises", "write_raises"} :
        /\ io' = [io EXCEPT ![r] = how]
        /\ IF how # "ok"
           THEN /\ Answer(r, ServerError)
                /\ UNCHANGED <<fs, inodes, sent, remoteCalls, loopHolder>>
           ELSE /\ inodes' = [inodes EXCEPT ![handle[r]] = inp[r].bytes]
                /\ IF ~Exists(path)       \* open(.., "rb") raises; finally: no file
                   THEN /\ Answer(r, ServerError)
                        /\ UNCHANGED <<fs, sent, remoteCalls, loopHolder>>
                   ELSE /\ sent' = [sent EXCEPT ![r] =
                                      [endpoint |-> "transcribe",
                                       bytes |-> inodes'[fs[path]]]]
                        /\ remoteCalls' = [remoteCalls EXCEPT ![r] = @ + 1]
                        /\ loopHolder' = r
                        /\ pc' = [pc EXCEPT ![r] = "tr_remote"]
                        /\ UNCHANGED <<fs, resp, served>>
    /\ UNCHANGED <<payload, cleanings, apiKey, booted, processor, inp, rec, reply, handle>>

TranscribeOutcomes == {[kind |-> "raise"], [kind |-> "text", text |-> <<"the sink leaks">>]}

\* the remote transcription raised: HTTPException(500)
transcribe_remote_failed == ServerError

\* the response of transcribe_audio once the remote call has ended
\* (cost is left out: the PRICING table is not part of the sources)
transcribe_response(out) ==
    IF out.kind = "raise" THEN transcribe_remote_failed
    ELSE [status |-> 200, body |-> JObj([k \in {"text"} |-> JStr(out.text)])]

\* the remote call ends; the except and finally clauses; the response
TrRemoteDone(r, outcomes) ==
    /\ pc[r] = "tr_remote" /\ loopHolder = r
    /\ \E out \in outcomes :
        /\ reply' = [reply EXCEPT ![r] = out]
        /\ Answer(r, transcribe_response(out))
    /\ LET path == TempName(inp[r].filename)
       IN  IF Exists(path) THEN RemoveTemp(path) ELSE fs' = fs
    /\ loopHolder' = 0
    /\ UNCHANGED <<io, payload, cleanings, apiKey, booted, processor, inp, rec, sent, remoteCalls, inodes,
                   handle>>

VoiceNext ==
    \/ Startup
    \/ \E r \in {1} :
        \/ ChatStart(r, ChatRequests)
        \/ ChatRemoteDone(r, ChatOutcomes)
        \/ TrStart(r, TranscribeUploads)
        \/ TrWrite(r)
        \/ TrRemoteDone(r, TranscribeOutcomes)
        \/ Finish(r)

SpecVoice == Init /\ [][VoiceNext]_vars

\* ---------------------------------------------------------------------------
\* The three endpoints in one process, two requests in flight at a time
\* ---------------------------------------------------------------------------
ConcUploads ==
    {u \in Uploads : u.hasName /\ u.size = 1
                      /\ u.filename = <<"a", ".", "p", "n", "g">>}

ConcInvoiceOutcomes == {out \in InvoiceOutcomes : out.kind \in {"raise", "no_tool"}}

ConcChatRequests == {q \in ChatRequests : q.user_context.unit_number = <<"5B">>}

ConcChatOutcomes == {out \in ChatOutcomes : out.kind = "raise" \/ ~out.parseable}

\* every step the handler of the request in slot r can take
ConcStep(r) ==
    \/ InvReceive(r, ConcUploads)
    \/ InvValidate(r)
    \/ InvRemoteDone(r, ConcInvoiceOutcomes)
    \/ ChatStart(r, ConcChatRequests)
    \/ ChatRemoteDone(r, ConcChatOutcomes)
    \/ TrStart(r, TranscribeUploads)
    \/ TrWrite(r)
    \/ TrRemoteDone(r, TranscribeOutcomes)
    \/ Finish(r)

ConcNext ==
    \/ Startup
    \/ \E r \in Reqs : ConcStep(r)

SpecConc == Init /\ [][ConcNext]_vars

\* ---------------------------------------------------------------------------
\* _validate_and_clean_data on its own: JSON values of bounded size
\* ---------------------------------------------------------------------------
MaxArrLen == 2
MaxDepth == 2
MaxPasses == 2

JsonLeaves ==
    {JNull, JBool(TRUE), JNum(7), JStr(<<>>), JStr(<<" ">>), JStr(<<"a">>)}

JsonKeys == {"", "k"}

\* lists and dicts whose items are leaves
JsonFlat ==
    UNION {{JArr(a) : a \in [1..n -> JsonLeaves]} : n \in 0..MaxArrLen}
    \cup UNION {{JObj(o) : o \in [ks -> JsonLeaves]} : ks \in SUBSET JsonKeys}

\* one more level around v: in a list, beside an empty string, under a key,
\* beside an empty list
JsonWrap(v) ==
    {JArr(<<v>>), JArr(<<JStr(<<>>), v>>), JObj([k \in {"k"} |-> v]),
     JObj([k \in JsonKeys |-> IF k = "k" THEN v ELSE JArr(<<>>)])}

RECURSIVE JsonValues(_)
JsonValues(depth) ==
    IF depth <= 1 THEN JsonLeaves \cup JsonFlat
    ELSE LET inner == JsonValues(depth - 1)
         IN  inner \cup UNION {JsonWrap(v) : v \in inner}

CollapseInit ==
    /\ ServiceInit
    /\ payload \in JsonValues(MaxDepth)
    /\ cleanings = <<>>

\* one call of _validate_and_clean_data: on the payload, then on what the
\* call before returned
Clean ==
    /\ Len(cleanings) < MaxPasses
    /\ cleanings' = Append(cleanings,
            validate_and_clean_data(IF cleanings = <<>> THEN payload
                                    ELSE cleanings[Len(cleanings)]))
    /\ UNCHANGED <<io, payload, apiKey, booted, processor, pc, inp, resp, rec, sent, reply,
                   remoteCalls, loopHolder, fs, inodes, handle, served>>

CollapseNext == Clean

SpecCollapse == CollapseInit /\ [][CollapseNext]_vars

-----------------------------------------------------------------------------
(* Properties of the invoice endpoint *)

Answered(r) == pc[r] = "done"

InvoiceAnswered(r) == Answered(r) /\ inp[r].endpoint = "invoice"

\* process_file_bytes was entered and made its remote call, which has ended
RemoteEnded(r) == InvoiceAnswered(r) /\ reply[r].kind # "none"

\* the remote model raised, made no function call, or called with a JSON object
ReplyIsRaiseNoToolOrObject(r) ==
    \/ reply[r].kind \in {"raise", "no_tool"}
    \/ reply[r].kind = "tool" /\ reply[r].parseable /\ reply[r].args.t = "obj"

NonEmptyString(v) == v.t = "str" /\ Len(v.s) > 0

\* C1: every upload that passed the file gate and was normalized, whatever the
\* remote model did (raised, no function call, a function call with any JSON
\* object), is answered 200 with a non-empty string expense_class, never 5xx.
C1_AlwaysOkRecord ==
    \A r \in Reqs :
        (RemoteEnded(r) /\ ReplyIsRaiseNoToolOrObject(r)) =>
            /\ resp[r].status = 200
            /\ NonEmptyString(resp[r].body.o["expense_class"])

\* all nine extracted fields absent and expense_class = "Other"
IsNullRecord(data) ==
    /\ \A k \in ExtractedFields : Get(data, k) = JNull
    /\ Get(data, "expense_class") = JStr(OTHER_CLASS)

Metadata(data) == Get(data, "metadata").o

\* C2: process_file_bytes never raises once the remote call is made; when the
\* remote call raises or the arguments are not parseable JSON it returns a null
\* record whose metadata has an error string and zero token usage; what it
\* raises, it raises before the remote call.
C2_ModelFailureGivesNullRecord ==
    \A r \in Reqs :
        /\ (RemoteEnded(r) => rec[r].kind = "returned")
        /\ (RemoteEnded(r) /\ (reply[r].kind = "raise"
                               \/ (reply[r].kind = "tool" /\ ~reply[r].parseable))) =>
                /\ IsNullRecord(rec[r].data)
                /\ NonEmptyString(Get(Metadata(rec[r].data), "error"))
                /\ \A k \in {"prompt_tokens", "completion_tokens", "total_tokens"} :
                        Get(Metadata(rec[r].data), "token_usage").o[k] = JNum(0)
        /\ (rec[r].kind = "raised" => remoteCalls[r] = 0 /\ reply[r].kind = "none")

C2_Witness ==
    \E r \in Reqs :
        /\ RemoteEnded(r)
        /\ reply[r].kind = "tool" /\ ~reply[r].parseable
        /\ rec[r].kind = "returned"
        /\ resp[r].status = 200

\* the function was called with a JSON object
CalledWithObject(r) ==
    RemoteEnded(r) /\ reply[r].kind = "tool" /\ reply[r].parseable
    /\ reply[r].args.t = "obj"

Collapsed(r) == validate_and_clean_data(reply[r].args)

LacksCoreField(d) == Get(d, "expense_class") = JNull \/ Get(d, "total_amount") = JNull

\* C3: a returned record either has expense_class and total_amount both present
\* (and is the collapsed arguments the model gave), or is a null record; when
\* the function was called and the collapsed arguments lack one of the two, the
\* null record's metadata holds the collapsed arguments as raw_ai_output.
C3_ValidityGate ==
    \A r \in Reqs :
        rec[r].kind = "returned" =>
            /\ \/ /\ ~LacksCoreField(rec[r].data)
                  /\ CalledWithObject(r)
                  /\ \A k \in DOMAIN Collapsed(r).o \ {"metadata"} :
                        rec[r].data[k] = Collapsed(r).o[k]
               \/ IsNullRecord(rec[r].data)
            /\ (CalledWithObject(r) /\ LacksCoreField(Collapsed(r).o)) =>
                    /\ IsNullRecord(rec[r].data)
                    /\ Get(Metadata(rec[r].data), "raw_ai_output") = Collapsed(r)

C3_Witness ==
    \E r \in Reqs :
        /\ CalledWithObject(r)
        /\ "expense_class" \in DOMAIN reply[r].args.o
        /\ reply[r].args.o["expense_class"] = JStr(<<" ">>)
        /\ Get(reply[r].args.o, "total_amount") = JNum(42)
        /\ Get(Metadata(rec[r].data), "raw_ai_output") = Collapsed(r)
        /\ Collapsed(r) # reply[r].args

\* the extension as convert_to_image and process_file_bytes compute it
Extension(filename) == LastSegment(Lower(filename))

\* the request got past get_processor, so the file gate was applied to it
Gated(r) == inp[r].endpoint = "invoice" /\ processor = "ready"

\* C5: an upload whose extension is not pdf, png, jpg or jpeg is rejected with
\* 400, an empty one with 400, one above 10 MiB with 413, all before any remote
\* call; process_file_bytes only sees allowed extensions and 1..10 MiB.
C5_FileGate ==
    \A r \in Reqs :
        /\ (Gated(r) /\ inp[r].hasName /\ Extension(inp[r].filename) \notin ALLOWED_EXTENSIONS)
                => (resp[r].status = 400 /\ remoteCalls[r] = 0)
        /\ (Gated(r) /\ Answered(r) /\ inp[r].size = 0)
                => (resp[r].status = 400 /\ remoteCalls[r] = 0)
        /\ (Gated(r) /\ Answered(r) /\ inp[r].size > MAX_FILE_SIZE)
                => (resp[r].status \in {400, 413} /\ remoteCalls[r] = 0)
        /\ (rec[r].kind # "none" \/ remoteCalls[r] > 0)
                => /\ Extension(inp[r].filename) \in ALLOWED_EXTENSIONS
                   /\ inp[r].size \in 1..MAX_FILE_SIZE

\* C6: with the credential unset the processor is never initialized and every
\* invoice request, however many came before, is answered 503 with no file
\* validation and no remote call.
C6_UnsetKeyGives503 ==
    ~apiKey =>
        /\ processor = "None"
        /\ \A r \in Reqs :
            inp[r].endpoint = "invoice" =>
                /\ Answered(r) /\ resp[r].status = 503
                /\ remoteCalls[r] = 0 /\ rec[r].kind = "none" /\ sent[r] = NoSent

C6_Witness ==
    /\ ~apiKey /\ booted /\ served = MaxRequests
    /\ \E r \in Reqs : InvoiceAnswered(r) /\ resp[r].status = 503
                       /\ inp[r].hasName /\ FileTypeAllowed(inp[r])
                       /\ inp[r].size = MAX_FILE_SIZE + 1

\* C10: the expense_class of every 200 response is one of the fixed expense
\* classes or "Other", whatever string the model gave.
C10_ExpenseClassInTaxonomy ==
    \A r \in Reqs :
        (InvoiceAnswered(r) /\ resp[r].status = 200) =>
            /\ resp[r].body.o["expense_class"].t = "str"
            /\ resp[r].body.o["expense_class"].s \in EXPENSE_CLASSES

-----------------------------------------------------------------------------
(* Properties of the chat and transcription endpoints *)

ChatAnswered(r) == Answered(r) /\ inp[r].endpoint = "chat"

TranscribeAnswered(r) == Answered(r) /\ inp[r].endpoint = "transcribe"

\* the model's reply is a JSON object whose tickets are ticket objects and
\* whose status and response_text, when given, are strings
RepliedWithTicketObjects(r) ==
    /\ ChatAnswered(r)
    /\ reply[r].kind = "content" /\ reply[r].parseable
    /\ reply[r].content.t = "obj"
    /\ Get(reply[r].content.o, "tickets").t = "arr"
    /\ \A i \in 1..Len(reply[r].content.o["tickets"].a) :
            reply[r].content.o["tickets"].a[i].t = "obj"
    /\ "status" \in DOMAIN reply[r].content.o => reply[r].content.o["status"].t = "str"
    /\ "response_text" \in DOMAIN reply[r].content.o
            => reply[r].content.o["response_text"].t = "str"

\* the category the ticket must come out with
ExpectedCategory(ticket) ==
    LET given == Get(ticket.o, "category")
    IN  IF given.t = "str" /\ Upper(given.s) \in ALLOWED_CATEGORIES
        THEN JStr(Upper(given.s))
        ELSE JStr(<<"O","T","H","E","R">>)

\* C4: every ticket object of the model's reply, whatever its category (a
\* string in any case, missing, null, another JSON value), comes back in the
\* 200 response with the upper-cased category if that is allowed, else "OTHER".
C4_TicketSanitization ==
    \A r \in Reqs :
        RepliedWithTicketObjects(r) =>
            /\ resp[r].status = 200
            /\ LET given == reply[r].content.o["tickets"].a
                   out == resp[r].body.o["tickets"].a
               IN  /\ Len(out) = Len(given)
                   /\ \A i \in 1..Len(given) :
                        /\ out[i].o["category"] = ExpectedCategory(given[i])
                        /\ out[i].o["category"].s \in ALLOWED_CATEGORIES

\* C7: chat and transcription answer 500, never 200, when the credential is
\* missing or the remote call raises; with a missing credential no remote call
\* is made and no transient file is created.
C7_StrictVoiceEndpoints ==
    \A r \in Reqs :
        (ChatAnswered(r) \/ TranscribeAnswered(r)) =>
            /\ ~apiKey => /\ resp[r].status = 500
                          /\ remoteCalls[r] = 0 /\ sent[r] = NoSent
                          /\ handle[r] = 0
                          /\ \A p \in TempPaths : ~Exists(p)
                          /\ inodes = <<>>
            /\ reply[r].kind = "raise" => resp[r].status = 500

C7_Witness ==
    \E r \in Reqs :
        /\ ChatAnswered(r) /\ apiKey
        /\ reply[r].kind = "raise" /\ remoteCalls[r] = 1
        /\ resp[r].status = 500

\* C8: once a transcription request that got past the credential check has
\* ended, with 200 or with an error raised while writing the upload, measuring
\* the duration or calling the remote service, its transient file is gone.
C8_TransientFileRemoved ==
    \A r \in Reqs :
        (TranscribeAnswered(r) /\ handle[r] # 0) =>
            \A p \in TempPaths : fs[p] # handle[r]

\* C9: every ticket of a 200 chat response carries the property_name and
\* unit_number of the request's user_context, whatever the model returned.
C9_ContextInjection ==
    \A r \in Reqs :
        (ChatAnswered(r) /\ resp[r].status = 200) =>
            \A i \in 1..Len(resp[r].body.o["tickets"].a) :
                LET ticket == resp[r].body.o["tickets"].a[i].o
                IN  /\ Get(ticket, "property_name") = JStr(inp[r].user_context.property_name)
                    /\ Get(ticket, "unit_number") = JStr(inp[r].user_context.unit_number)


\* an empty string or an empty list as a value at any depth of v
RECURSIVE HasEmpty(_)
HasEmpty(v) ==
    CASE v.t = "str" -> v.s = <<>>
      [] v.t = "arr" -> Len(v.a) = 0 \/ \E i \in 1..Len(v.a) : HasEmpty(v.a[i])
      [] v.t = "obj" -> \E k \in DOMAIN v.o : HasEmpty(v.o[k])
      [] OTHER -> FALSE

\* C11: _validate_and_clean_data is idempotent, cleaning what a cleaning
\* returned gives the same value again, and what it returns holds no empty
\* string and no empty list as a value at any depth.
C11_CollapseIdempotent ==
    \A i \in 1..Len(cleanings) :
        /\ ~HasEmpty(cleanings[i])
        /\ i > 1 => cleanings[i] = cleanings[i - 1]

\* a list cleaned twice that held an empty value inside a nested list or dict
C11_Witness ==
    /\ Len(cleanings) >= 2
    /\ payload.t = "arr"
    /\ \E i \in 1..Len(payload.a) :
          payload.a[i].t \in {"arr", "obj"} /\ HasEmpty(payload.a[i])
    /\ cleanings[1] # payload
    /\ cleanings[2] = cleanings[1]

\* C14: the text part of every request sent to the model by process_file_bytes
\* holds the analysis instruction, and holds the raw text section exactly when
\* the extracted raw text is not empty.
C14_InstructionAlwaysSent ==
    \A r \in Reqs :
        sent[r].endpoint = "invoice" =>
            /\ sent[r].text.instruction
            /\ sent[r].text.raw_section <=> sent[r].raw_text

\* the remote model call of the request in slot r has not ended
RemotePending(r) == pc[r] \in {"inv_remote", "chat_remote", "tr_remote"}

\* C12: while the remote call of one request is pending, a second request in
\* the same process can go on: it can start if it has not started, and take
\* its next step if it has, whichever endpoint the pending call belongs to.
C12_RemoteCallOffLoop ==
    \A r \in Reqs : \A q \in Reqs \ {r} :
        (RemotePending(r) /\ (pc[q] = "idle" => served < MaxRequests))
            => ENABLED ConcStep(q)

\* the request in slot r is in transcribe_audio and holds its temporary file
Transcribing(r) == pc[r] \in {"tr_read", "tr_remote"}

\* C13: two transcription requests handled at the same time never work on
\* the same file, the remote call of each is given the bytes of its own
\* upload, and a request whose own reading, writing and remote call went well
\* is answered 200 whatever the other request did.
C13_TransientFileRequestScoped ==
    \A r \in Reqs :
        /\ \A q \in Reqs \ {r} :
              Transcribing(r) /\ Transcribing(q) => handle[r] # handle[q]
        /\ sent[r].endpoint = "transcribe" => sent[r].bytes = inp[r].bytes
        /\ (/\ pc[r] = "done" /\ inp[r].endpoint = "transcribe"
            /\ io[r] = "ok" /\ reply[r].kind # "raise")
              => resp[r].status = 200
====
